---- MODULE Spec2Model ----
(***************************************************************************)
(* Poster layout of nsw_topo_split: make_split_map from the point where    *)
(* the crop box is known (line 491), through _get_bbox, _choose_n_pages,   *)
(* _calc_layout_params and the page loop of _make_poster; and the cover    *)
(* page of _make_cover.                                                    *)
(*                                                                         *)
(* Python floats are modelled as exact rationals <<numerator, denominator>>*)
(* in lowest terms with a positive denominator, so equality of two values  *)
(* is equality of the pairs.  Rounding of IEEE doubles is not modelled.    *)
(***************************************************************************)
EXTENDS Integers, Sequences, FiniteSets, TLC

\* ---------------------------------------------------------------- bounds
MaxPage == 3        \* page sizes are 1..MaxPage points
MaxOverlap == 2     \* minimum overlaps are 0..MaxOverlap points
MaxN == 3           \* requested page counts are at most MaxN
MaxCoord == 5       \* rectangle coordinates are 0..MaxCoord points
MaxHalfPanels == 7  \* map sheets are up to MaxHalfPanels half cover widths wide
MaxDelta == 2       \* ... give or take up to MaxDelta points
MaxHeight == 3      \* map sheets are up to MaxHeight points higher than the margins
MaxMargin == 1      \* margins are 0..MaxMargin points

NOMINAL_COVER_WIDTH_PT == 326

None == "None"

\* ------------------------------------------------------- float arithmetic
Abs(x) == IF x < 0 THEN -x ELSE x

RECURSIVE GCD(_, _)
GCD(a, b) == IF b = 0 THEN a ELSE GCD(b, a % b)

Norm(n, d) ==
    LET s == IF d < 0 THEN -1 ELSE 1
        g == GCD(Abs(n), Abs(d))
    IN  <<(s * n) \div g, (s * d) \div g>>

Float(n) == <<n, 1>>

FAdd(a, b) == Norm(a[1] * b[2] + b[1] * a[2], a[2] * b[2])

FSub(a, b) == Norm(a[1] * b[2] - b[1] * a[2], a[2] * b[2])

FMul(a, b) == Norm(a[1] * b[1], a[2] * b[2])

\* a / b for b # 0; Python raises ZeroDivisionError for b = 0, which the
\* callers below guard.
FDiv(a, b) == Norm(a[1] * b[2], a[2] * b[1])

FLt(a, b) == a[1] * b[2] < b[1] * a[2]

FLe(a, b) == a[1] * b[2] <= b[1] * a[2]

FloorDiv(a) == a[1] \div a[2]

\* math.ceil
Ceil(a) == -((-a[1]) \div a[2])

\* pymupdf.Rect as a record of four floats
Rect(x0, y0, x1, y1) == [x0 |-> x0, y0 |-> y0, x1 |-> x1, y1 |-> y1]

RectWidth(r) == FSub(r.x1, r.x0)

RectHeight(r) == FSub(r.y1, r.y0)

\* Rect - (ox, oy, ox, oy): `cropbox - page_origin * 2`
RectSub(r, o) ==
    Rect(FSub(r.x0, o[1]), FSub(r.y0, o[2]), FSub(r.x1, o[1]), FSub(r.y1, o[2]))

\* ------------------------------------------------------ page-count choice
_choose_n_pages_1d_floor(from_size, to_size, overlap) ==
    FloorDiv(FDiv(FSub(from_size, overlap), FSub(to_size, overlap)))

_choose_n_pages_1d(from_size, to_size, overlap) ==
    Ceil(FDiv(FSub(from_size, overlap), FSub(to_size, overlap)))

_choose_n_pages(from_size, to_size, overlap) ==
    <<_choose_n_pages_1d(from_size[1], to_size[1], overlap[1]),
      _choose_n_pages_1d(from_size[2], to_size[2], overlap[2])>>

\* the division of line 159 raises ZeroDivisionError on either axis
_choose_n_pages_raises(to_size, overlap) ==
    to_size[1] = overlap[1] \/ to_size[2] = overlap[2]

\* ------------------------------------------------------------ 1-D layout
_calc_layout_size(page_size, n, overlap) ==
    FSub(FMul(Float(n), page_size), FMul(Float(n - 1), overlap))

increased_overlap_div_n(page_size, n, cropbox_size) ==
    FDiv(FSub(FMul(Float(n), page_size), cropbox_size), Float(n))

\* line 198: the overlap that makes the layout size equal the cropbox size
increased_overlap(page_size, n, cropbox_size) ==
    FDiv(FSub(FMul(Float(n), page_size), cropbox_size), Float(n - 1))

clamp_lower_only(origin, max_layout_size, cropbox) ==
    IF FLt(origin, cropbox[1]) THEN cropbox[1] ELSE origin

\* lines 207-210: make sure the layout is still inside the cropbox
clamp_to_cropbox(origin, max_layout_size, cropbox) ==
    IF FLt(origin, cropbox[1]) THEN cropbox[1]
    ELSE IF FLt(cropbox[2], FAdd(origin, max_layout_size))
         THEN FSub(cropbox[2], max_layout_size)
         ELSE origin

Half(a) == FDiv(a, Float(2))

_calc_layout_params_1d_ignore_whitespace(page_size, n, min_overlap, cropbox, allow_whitespace, artbox) ==
    LET max_layout_size == _calc_layout_size(page_size, n, min_overlap)
        cropbox_size == FSub(cropbox[2], cropbox[1])
    IN  IF FLt(cropbox_size, max_layout_size)
        THEN IF n > 1
             THEN <<cropbox[1], increased_overlap(page_size, n, cropbox_size)>>
             ELSE <<FSub(Half(FAdd(cropbox[1], cropbox[2])), Half(max_layout_size)),
                    min_overlap>>
        ELSE <<clamp_to_cropbox(
                   FSub(Half(FAdd(artbox[1], artbox[2])), Half(max_layout_size)),
                   max_layout_size, cropbox),
               min_overlap>>

\* returns <<origin, overlap>>
_calc_layout_params_1d(page_size, n, min_overlap, cropbox, allow_whitespace, artbox) ==
    LET max_layout_size == _calc_layout_size(page_size, n, min_overlap)
        cropbox_size == FSub(cropbox[2], cropbox[1])
    IN  IF FLt(cropbox_size, max_layout_size)
        THEN IF ~allow_whitespace /\ n > 1
             THEN <<cropbox[1], increased_overlap(page_size, n, cropbox_size)>>
             ELSE <<FSub(Half(FAdd(cropbox[1], cropbox[2])), Half(max_layout_size)),
                    min_overlap>>
        ELSE <<clamp_to_cropbox(
                   FSub(Half(FAdd(artbox[1], artbox[2])), Half(max_layout_size)),
                   max_layout_size, cropbox),
               min_overlap>>

\* --------------------------------------------------------- 2-D composer
n_pages_too_small_le(size, artbox_size) == FLe(size, artbox_size)

\* lines 263 and 276: the layout does not span the artbox
n_pages_too_small(size, artbox_size) == FLt(size, artbox_size)

\* returns [origin, overlap, warnings]; warnings lists the axes _warn_n_pages
\* was called for, in call order
_calc_layout_params(page_size, n, min_overlap, cropbox, allow_whitespace, artbox) ==
    LET px == _calc_layout_params_1d(page_size[1], n[1], min_overlap[1],
                  <<cropbox.x0, cropbox.x1>>, allow_whitespace,
                  <<artbox.x0, artbox.x1>>)
        width == _calc_layout_size(page_size[1], n[1], px[2])
        wx == IF n_pages_too_small(width, FSub(artbox.x1, artbox.x0))
              THEN <<"x">> ELSE <<>>
        py == _calc_layout_params_1d(page_size[2], n[2], min_overlap[2],
                  <<cropbox.y0, cropbox.y1>>, allow_whitespace,
                  <<artbox.y0, artbox.y1>>)
        height == _calc_layout_size(page_size[2], n[2], py[2])
        wy == IF n_pages_too_small(height, FSub(artbox.y1, artbox.y0))
              THEN <<"y">> ELSE <<>>
    IN  [origin |-> <<px[1], py[1]>>, overlap |-> <<px[2], py[2]>>,
         warnings |-> wx \o wy]

\* ------------------------------------------------- bounding-box inference
\* COLLAR_REGEX.search(text) on the texts the model's blocks carry:
\* "6270000mN" matches 'm[NESW]' and '000m', "(MGA 56)" matches
\* '\(MGA(?:\s[0-9]+)?\)', "mE" matches 'm[NESW]'; "Katoomba" and "" match
\* no alternative.
COLLAR_REGEX_search(text) == text \in {"6270000mN", "(MGA 56)", "mE"}

\* a block is the tuple (x0, y0, x1, y1, text, block_no, block_type)
_is_map_text(block) == block[7] = 0 /\ COLLAR_REGEX_search(block[5])

FMin(S) == CHOOSE m \in S : \A x \in S : FLe(m, x)

FMax(S) == CHOOSE m \in S : \A x \in S : FLe(x, m)

\* the blocks that pass the filter, in order
filtered(bs) == SelectSeq(bs, _is_map_text)

\* min() of an empty list raises ValueError (line 452)
_get_bbox_raises(bs) == filtered(bs) = <<>>

_get_bbox(bs) ==
    LET f == filtered(bs)
        xcoords == {f[k][1] : k \in 1..Len(f)} \cup {f[k][3] : k \in 1..Len(f)}
        ycoords == {f[k][2] : k \in 1..Len(f)} \cup {f[k][4] : k \in 1..Len(f)}
    IN  Rect(FMin(xcoords), FMin(ycoords), FMax(xcoords), FMax(ycoords))

\* ------------------------------------------------------------ page loop
page_origin_no_overlap(origin, page, ov, jj, ii) ==
    <<FAdd(origin[1], FMul(Float(jj), page[1])),
      FAdd(origin[2], FMul(Float(ii), page[2]))>>

\* lines 352-355
page_origin(origin, page, ov, jj, ii) ==
    <<FAdd(origin[1], FMul(Float(jj), FSub(page[1], ov[1]))),
      FAdd(origin[2], FMul(Float(ii), FSub(page[2], ov[2])))>>

\* the rectangle shares area with the canvas (0, 0, width, height)
Intersects(rect, width, height) ==
    /\ FLt(rect.x0, width) /\ FLt(Float(0), rect.x1)
    /\ FLt(rect.y0, height) /\ FLt(Float(0), rect.y1)

show_pdf_page_skip_blank(doc, page) ==
    IF Intersects(page.rect, page.width, page.height) THEN Append(doc, page) ELSE doc

\* lines 358-361: the new page, with the clip shown on it, joins the document
show_pdf_page(doc, page) == Append(doc, page)

loop_next_row_major(jj, ii, n) ==
    IF jj + 1 < n[1] THEN <<jj + 1, ii>> ELSE <<0, ii + 1>>

\* lines 349-350: the indices of the iteration after (jj, ii)
loop_next(jj, ii, n) ==
    IF ii + 1 < n[2] THEN <<jj, ii + 1>> ELSE <<jj + 1, 0>>

\* the loops have an iteration (jj, ii) to run
loop_has(jj, ii, n) == jj < n[1] /\ ii < n[2]

\* ---------------------------------------------------------------- cover
\* round(x) of a float: to the nearest integer, a tie to the even one
round(a) ==
    LET f == a[1] \div a[2]
        twice_rest == 2 * (a[1] - f * a[2])
    IN  IF twice_rest < a[2] THEN f
        ELSE IF twice_rest > a[2] THEN f + 1
        ELSE IF f % 2 = 0 THEN f ELSE f + 1

\* the division of line 366 raises ZeroDivisionError
_guess_cover_width_raises(page_width) ==
    round(FDiv(page_width, Float(NOMINAL_COVER_WIDTH_PT))) = 0

_guess_cover_width_nominal(page_width) == Float(NOMINAL_COVER_WIDTH_PT)

_guess_cover_width(page_width) ==
    FDiv(page_width, Float(round(FDiv(page_width, Float(NOMINAL_COVER_WIDTH_PT)))))

\* Rect + (m, m, -m, -m)
RectTrim(r, m) == Rect(FAdd(r.x0, m), FAdd(r.y0, m), FSub(r.x1, m), FSub(r.y1, m))

\* lines 385-408: the page of the cover document, with the target rectangle
\* and the source clip of each of the two show_pdf_page calls
cover_page(crop, cover_width) ==
    LET half_height == Half(RectHeight(crop))
        mid == Half(FAdd(crop.y0, crop.y1))
    IN  [width |-> FMul(Float(2), cover_width),
         height |-> half_height,
         title_rect |-> Rect(Float(0), Float(0), cover_width, half_height),
         title_clip |-> Rect(FSub(crop.x1, cover_width), mid, crop.x1, crop.y1),
         legend_rect |-> Rect(cover_width, Float(0), FMul(Float(2), cover_width),
                              half_height),
         legend_clip |-> Rect(FSub(crop.x1, cover_width), crop.y0, crop.x1, mid)]

\* ----------------------------------------------------------------- state
VARIABLES
    pc,               \* where make_split_map / _make_poster stands
    page_size,        \* (width, height) of the output pages
    n_pages,          \* None or (nx, ny); rebound at line 325
    min_overlap,      \* (horizontal, vertical)
    cropbox,          \* Rect
    allow_whitespace, \* bool
    blocks,           \* what page.get_text("blocks", clip=cropbox) returns
    artbox,           \* None until _get_bbox returned
    chosen,           \* line 325 ran: the page counts were chosen, not given
    layout_origin,    \* None until _calc_layout_params returned
    overlap,          \* None until _calc_layout_params returned
    warnings,         \* axes _warn_n_pages was called for
    docout,           \* the pages of the output document, in order
    j, i,             \* the loop indices of lines 349-350
    error,            \* None or the exception that ended the call
    bound,            \* _make_cover: pagesrc.bound()
    margin,           \* _make_cover: margin
    cover             \* None or the page of the document _make_cover returns

vars == <<pc, page_size, n_pages, min_overlap, cropbox, allow_whitespace, blocks,
          artbox, chosen, layout_origin, overlap, warnings, docout, j, i, error,
          bound, margin, cover>>

cover_vars == <<bound, margin, cover>>

inputs == <<page_size, min_overlap, cropbox, allow_whitespace, blocks>>

Block(x0, y0, x1, y1, text, type) ==
    <<Float(x0), Float(y0), Float(x1), Float(y1), text, 0, type>>

\* the text and image blocks of the page of the two-axis specification
PageBlocks ==
    << Block(0, 0, 1, 1, "6270000mN", 0),
       Block(1, 1, MaxCoord, MaxCoord, "(MGA 56)", 0),
       Block(0, 0, MaxCoord, MaxCoord, "mE", 1) >>

RECURSIVE Pick(_, _, _)
Pick(s, keep, k) ==
    IF k > Len(s) THEN <<>>
    ELSE (IF k \in keep THEN <<s[k]>> ELSE <<>>) \o Pick(s, keep, k + 1)

\* the subsequences of s: the blocks of the page that a clip keeps
SubSeqs(s) == {Pick(s, keep, 1) : keep \in SUBSET (1..Len(s))}

Started ==
    /\ pc = "make_split_map"
    /\ artbox = None
    /\ chosen = FALSE
    /\ layout_origin = None
    /\ overlap = None
    /\ warnings = <<>>
    /\ docout = <<>>
    /\ j = 0
    /\ i = 0
    /\ error = None
    /\ bound = None
    /\ margin = None
    /\ cover = None

\* make_split_map at line 491, both axes varied
Init ==
    /\ Started
    /\ page_size \in {<<Float(a), Float(b)>> : a \in {1, MaxPage}, b \in {1, MaxPage}}
    /\ min_overlap \in {<<Float(a), Float(b)>> : a \in {0, 1}, b \in {0, 1}}
    /\ cropbox \in {Rect(Float(0), Float(0), Float(a), Float(b)) :
                        a \in {2, MaxCoord}, b \in {2, MaxCoord}}
    /\ n_pages \in {None} \cup ((0..MaxN) \X (0..MaxN))
    /\ allow_whitespace \in BOOLEAN
    /\ blocks \in SubSeqs(PageBlocks)

\* make_split_map at line 491, the horizontal axis varied over every size
\* and position, the vertical axis one page high
InitAxis ==
    /\ Started
    /\ page_size \in {<<Float(a), Float(1)>> : a \in 1..MaxPage}
    /\ min_overlap \in {<<Float(a), Float(0)>> : a \in 0..MaxOverlap}
    /\ cropbox \in {Rect(Float(a), Float(0), Float(b), Float(1)) :
                        a \in 0..1, b \in 1..MaxCoord} \ 
                   {Rect(Float(1), Float(0), Float(1), Float(1))}
    /\ n_pages \in {None} \cup (((-1)..MaxN) \X {1})
    /\ allow_whitespace \in BOOLEAN
    /\ blocks \in {<<>>, <<Block(0, 0, 1, 1, "Katoomba", 0)>>}
           \cup {<<Block(ab[1], 0, ab[2], 1, "mE", 0)>> :
                    ab \in {ab \in (0..MaxCoord) \X (0..MaxCoord) : ab[1] <= ab[2]}}

\* ------------------------------------------------------------ operations
\* make_split_map line 491: artbox = _get_bbox(...)
GetBBox ==
    /\ pc = "make_split_map"
    /\ ~_get_bbox_raises(blocks)
    /\ artbox' = _get_bbox(blocks)
    /\ pc' = "_make_poster"
    /\ UNCHANGED <<inputs, cover_vars, n_pages, chosen, layout_origin, overlap, warnings,
                   docout, j, i, error>>

GetBBoxRaises ==
    /\ pc = "make_split_map"
    /\ _get_bbox_raises(blocks)
    /\ error' = "ValueError"
    /\ pc' = "error"
    /\ UNCHANGED <<inputs, cover_vars, n_pages, artbox, chosen, layout_origin, overlap,
                   warnings, docout, j, i>>

\* _make_poster lines 318-326
ChooseNPages ==
    /\ pc = "_make_poster"
    /\ IF n_pages = None
       THEN /\ ~_choose_n_pages_raises(page_size, min_overlap)
            /\ n_pages' = _choose_n_pages(<<RectWidth(artbox), RectHeight(artbox)>>,
                                          page_size, min_overlap)
            /\ chosen' = TRUE
       ELSE UNCHANGED <<n_pages, chosen>>
    /\ pc' = "_calc_layout_params"
    /\ UNCHANGED <<inputs, cover_vars, artbox, layout_origin, overlap, warnings, docout, j, i,
                   error>>

ChooseNPagesRaises ==
    /\ pc = "_make_poster"
    /\ n_pages = None
    /\ _choose_n_pages_raises(page_size, min_overlap)
    /\ error' = "ZeroDivisionError"
    /\ pc' = "error"
    /\ UNCHANGED <<inputs, cover_vars, n_pages, artbox, chosen, layout_origin, overlap,
                   warnings, docout, j, i>>

\* _make_poster lines 327-348
CalcLayoutParams ==
    /\ pc = "_calc_layout_params"
    /\ LET r == _calc_layout_params(page_size, n_pages, min_overlap, cropbox,
                                    allow_whitespace, artbox)
       IN  /\ layout_origin' = r.origin
           /\ overlap' = r.overlap
           /\ warnings' = r.warnings
    /\ docout' = <<>>
    /\ j' = 0
    /\ i' = 0
    /\ pc' = "new_page"
    /\ UNCHANGED <<inputs, cover_vars, n_pages, artbox, chosen, error>>

\* _make_poster lines 349-361: one iteration of the inner loop
NewPage ==
    /\ pc = "new_page"
    /\ loop_has(j, i, n_pages)
    /\ LET origin == page_origin(layout_origin, page_size, overlap, j, i)
           clip_rect_rel_page == RectSub(cropbox, origin)
           pageout == [j |-> j, i |-> i, width |-> page_size[1],
                       height |-> page_size[2], rect |-> clip_rect_rel_page]
       IN  docout' = show_pdf_page(docout, pageout)
    /\ j' = loop_next(j, i, n_pages)[1]
    /\ i' = loop_next(j, i, n_pages)[2]
    /\ UNCHANGED <<pc, inputs, cover_vars, n_pages, artbox, chosen, layout_origin, overlap,
                   warnings, error>>

\* _make_poster line 362: return docout
Return ==
    /\ pc = "new_page"
    /\ ~loop_has(j, i, n_pages)
    /\ pc' = "done"
    /\ UNCHANGED <<inputs, cover_vars, n_pages, artbox, chosen, layout_origin, overlap,
                   warnings, docout, j, i, error>>

Next ==
    \/ GetBBox
    \/ GetBBoxRaises
    \/ ChooseNPages
    \/ ChooseNPagesRaises
    \/ CalcLayoutParams
    \/ NewPage
    \/ Return

Spec == Init /\ [][Next]_vars

SpecAxis == InitAxis /\ [][Next]_vars

\* ------------------------------------------------------- cover operations
\* the widths of the map sheets: around every multiple of half the nominal
\* cover width
SheetWidths ==
    {(k * NOMINAL_COVER_WIDTH_PT) \div 2 + d :
        k \in 1..MaxHalfPanels, d \in (-MaxDelta)..MaxDelta}

\* _make_cover at line 382
InitCover ==
    /\ pc = "_make_cover"
    /\ bound \in {Rect(Float(0), Float(0), Float(w), Float(h)) :
                      w \in SheetWidths,
                      h \in (2 * MaxMargin + 1)..(2 * MaxMargin + MaxHeight)}
    /\ margin \in {Float(m) : m \in 0..MaxMargin}
    /\ cover = None
    /\ cropbox = None
    /\ error = None
    /\ page_size = None
    /\ n_pages = None
    /\ min_overlap = None
    /\ allow_whitespace = FALSE
    /\ blocks = <<>>
    /\ artbox = None
    /\ chosen = FALSE
    /\ layout_origin = None
    /\ overlap = None
    /\ warnings = <<>>
    /\ docout = <<>>
    /\ j = 0
    /\ i = 0

poster_vars == <<page_size, n_pages, min_overlap, allow_whitespace, blocks, artbox,
                 chosen, layout_origin, overlap, warnings, docout, j, i>>

\* _make_cover lines 382-409
MakeCover ==
    /\ pc = "_make_cover"
    /\ LET crop == RectTrim(bound, margin)
       IN  /\ ~_guess_cover_width_raises(RectWidth(crop))
           /\ cropbox' = crop
           /\ cover' = cover_page(crop, _guess_cover_width(RectWidth(crop)))
    /\ pc' = "cover_done"
    /\ UNCHANGED <<poster_vars, bound, margin, error>>

\* _make_cover lines 382-384, _guess_cover_width raising
MakeCoverRaises ==
    /\ pc = "_make_cover"
    /\ LET crop == RectTrim(bound, margin)
       IN  /\ _guess_cover_width_raises(RectWidth(crop))
           /\ cropbox' = crop
    /\ error' = "ZeroDivisionError"
    /\ pc' = "error"
    /\ UNCHANGED <<poster_vars, bound, margin, cover>>

NextCover ==
    \/ MakeCover
    \/ MakeCoverRaises

SpecCover == InitCover /\ [][NextCover]_vars

\* ---------------------------------------------------------------- claims
Axes == {1, 2}

\* _calc_layout_params has returned
Laid == pc \in {"new_page", "done"}

crop_lo(a) == IF a = 1 THEN cropbox.x0 ELSE cropbox.y0

crop_hi(a) == IF a = 1 THEN cropbox.x1 ELSE cropbox.y1

crop_size(a) == FSub(crop_hi(a), crop_lo(a))

art_lo(a) == IF a = 1 THEN artbox.x0 ELSE artbox.y0

art_hi(a) == IF a = 1 THEN artbox.x1 ELSE artbox.y1

art_size(a) == FSub(art_hi(a), art_lo(a))

\* the layout size at the minimum overlap, and at the returned overlap
min_overlap_size(a) == FSub(FMul(Float(n_pages[a]), page_size[a]),
                            FMul(Float(n_pages[a] - 1), min_overlap[a]))

realized_size(a) == FSub(FMul(Float(n_pages[a]), page_size[a]),
                         FMul(Float(n_pages[a] - 1), overlap[a]))

Tiles(jj, ii) == {k \in 1..Len(docout) : docout[k].j = jj /\ docout[k].i = ii}

\* C1: a finished poster for page counts nx >= 1, ny >= 1 has exactly nx * ny
\* pages, exactly one for every (j, i) with 0 <= j < nx and 0 <= i < ny.
C1_DenseGrid ==
    (pc = "done" /\ n_pages[1] >= 1 /\ n_pages[2] >= 1) =>
        /\ Len(docout) = n_pages[1] * n_pages[2]
        /\ \A jj \in 0..(n_pages[1] - 1), ii \in 0..(n_pages[2] - 1) :
               Cardinality(Tiles(jj, ii)) = 1

\* a finished 2 x 2 (or larger) poster with a page whose clip rectangle lies
\* off the page canvas
C1_Witness ==
    /\ pc = "done"
    /\ n_pages[1] >= 2 /\ n_pages[2] >= 2
    /\ Len(docout) = n_pages[1] * n_pages[2]
    /\ \E k \in 1..Len(docout) :
           ~Intersects(docout[k].rect, docout[k].width, docout[k].height)

\* C2: the k-th page produced (k from 0) is tile (k div ny, k mod ny), at every
\* moment of the page loop.
C2_ColumnMajor ==
    \A k \in 1..Len(docout) :
        /\ docout[k].j = (k - 1) \div n_pages[2]
        /\ docout[k].i = (k - 1) % n_pages[2]

\* a finished 2 x 3 poster: the third page ends column 0, the fourth starts
\* column 1
C2_Witness ==
    /\ pc = "done"
    /\ n_pages = <<2, 3>>
    /\ Len(docout) = 6
    /\ docout[3].j = 0 /\ docout[3].i = 2
    /\ docout[4].j = 1 /\ docout[4].i = 0

\* C3 as stated: with allow_whitespace false and the minimum-overlap layout
\* larger than the crop box on an axis, the realized layout size equals the
\* crop-box size and the origin is the crop box's lower edge.  Stated for the
\* axes of a valid request only (n_pages >= 1, 0 <= min_overlap < page size).
C3_Original ==
    Laid => \A a \in Axes :
        (~allow_whitespace /\ FLt(crop_size(a), min_overlap_size(a))
            /\ n_pages[a] >= 1 /\ FLe(Float(0), min_overlap[a])
            /\ FLt(min_overlap[a], page_size[a])) =>
            /\ realized_size(a) = crop_size(a)
            /\ layout_origin[a] = crop_lo(a)

\* C3 amended: the same for axes with more than one page.
C3_WhitespaceEliminated ==
    Laid => \A a \in Axes :
        (~allow_whitespace /\ n_pages[a] > 1
            /\ FLt(crop_size(a), min_overlap_size(a))) =>
            /\ realized_size(a) = crop_size(a)
            /\ layout_origin[a] = crop_lo(a)

\* the overlap was raised, to a value that is not a whole number of points,
\* on a crop box that does not start at 0
C3_Witness ==
    /\ Laid
    /\ ~allow_whitespace
    /\ n_pages[1] > 2
    /\ FLt(crop_size(1), min_overlap_size(1))
    /\ FLt(min_overlap[1], overlap[1])
    /\ overlap[1][2] # 1
    /\ layout_origin[1] = Float(1)

\* where line 205 centres the layout of axis a
centred(a) == FSub(Half(FAdd(art_lo(a), art_hi(a))), Half(min_overlap_size(a)))

inside(origin, a) ==
    /\ FLe(crop_lo(a), origin)
    /\ FLe(FAdd(origin, min_overlap_size(a)), crop_hi(a))

\* C4: when the minimum-overlap layout fits the crop box on an axis, the overlap
\* is min_overlap, the layout is centred on the art box if that position is
\* inside the crop box and otherwise sits at the nearer crop-box edge, and it
\* lies inside the crop box.
C4_Centred ==
    Laid => \A a \in Axes :
        FLe(min_overlap_size(a), crop_size(a)) =>
            /\ overlap[a] = min_overlap[a]
            /\ layout_origin[a] =
                   IF inside(centred(a), a) THEN centred(a)
                   ELSE IF FLt(centred(a), crop_lo(a)) THEN crop_lo(a)
                   ELSE FSub(crop_hi(a), min_overlap_size(a))
            /\ inside(layout_origin[a], a)

\* an art box reaching beyond the crop box's upper edge, the layout moved back
\* to end at that edge
C4_Witness ==
    /\ Laid
    /\ n_pages[1] >= 2
    /\ FLt(min_overlap_size(1), crop_size(1))
    /\ FLt(crop_hi(1), art_hi(1))
    /\ FLt(crop_hi(1), FAdd(centred(1), min_overlap_size(1)))
    /\ layout_origin[1] = FSub(crop_hi(1), min_overlap_size(1))

Warned(axis) == \E k \in 1..Len(warnings) : warnings[k] = axis

\* C5: once _calc_layout_params has returned, a warning names an axis exactly
\* when the realized layout size is smaller than the art-box size on it, and
\* origin and overlap are returned for both axes; no call that warned ends in
\* an error.
C5_Advisory ==
    /\ Laid =>
        /\ Warned("x") <=> FLt(realized_size(1), art_size(1))
        /\ Warned("y") <=> FLt(realized_size(2), art_size(2))
        /\ layout_origin # None /\ overlap # None
    /\ warnings # <<>> => Laid
    /\ pc = "error" => warnings = <<>>

\* a finished poster that warned for the vertical axis only
C5_Witness ==
    /\ pc = "done"
    /\ warnings = <<"y">>
    /\ Len(docout) >= 2
    /\ realized_size(1) = art_size(1)

\* C6: page counts chosen by _choose_n_pages span the art box at the minimum
\* overlap on every axis whose page size exceeds the minimum overlap.
C6_ChosenSpans ==
    chosen => \A a \in Axes :
        FLt(min_overlap[a], page_size[a]) =>
            FLe(art_size(a), min_overlap_size(a))

\* two or more pages chosen for a positive overlap, spanning more than the
\* art box
C6_Witness ==
    /\ chosen
    /\ n_pages[1] >= 2
    /\ FLt(Float(0), min_overlap[1])
    /\ FLt(min_overlap[1], page_size[1])
    /\ FLt(art_size(1), min_overlap_size(1))

\* the page counts were given by the caller
requested == n_pages # None /\ ~chosen

ConfigurationError ==
    \E a \in Axes :
        \/ FLe(page_size[a], Float(0))
        \/ FLe(page_size[a], min_overlap[a])
        \/ requested /\ n_pages[a] <= 0

\* C7 as stated: a request with a non-positive page size, min_overlap >= page
\* size or a requested page count <= 0 returns no layout and no document.
C7_ConfigErrorsFatal ==
    ConfigurationError => (~Laid /\ layout_origin = None /\ docout = <<>>)

NoBlockPasses == \A k \in 1..Len(blocks) : ~_is_map_text(blocks[k])

\* C8 as stated: when no block passes the filter, _get_bbox ends without an
\* error.
C8_UndefinedOnMiss ==
    NoBlockPasses => (pc # "error" /\ error = None)

\* C9 as stated: for n_pages >= 1 and 0 <= min_overlap < page size on an axis,
\* the returned overlap is smaller than the page size.
C9_PositiveStride ==
    Laid => \A a \in Axes :
        (n_pages[a] >= 1 /\ FLe(Float(0), min_overlap[a])
            /\ FLt(min_overlap[a], page_size[a])) =>
            FLt(overlap[a], page_size[a])

\* C10 as stated: a chosen page count is >= 1 on every axis with
\* 0 <= min_overlap < page size.
C10_ChosenAtLeastOne ==
    chosen => \A a \in Axes :
        (FLe(Float(0), min_overlap[a]) /\ FLt(min_overlap[a], page_size[a])) =>
            n_pages[a] >= 1

\* the cover page is two panels of one width, side by side, the title block on
\* the left and the legend on the right, half of `height` high; a whole number
\* of panels, the one nearest to width / 326, spans `width`
TwoPanelCover(width, height) ==
    LET panel == cover.title_rect.x1
    IN  /\ \E k \in 1..(MaxHalfPanels + 1) :
               /\ 2 * Abs(width[1] - NOMINAL_COVER_WIDTH_PT * k * width[2])
                      <= NOMINAL_COVER_WIDTH_PT * width[2]
               /\ FMul(panel, Float(k)) = width
        /\ cover.width = FMul(Float(2), panel)
        /\ cover.height = Half(height)
        /\ cover.title_rect = Rect(Float(0), Float(0), panel, Half(height))
        /\ cover.legend_rect = Rect(panel, Float(0), FMul(Float(2), panel), Half(height))

\* C11 as stated: the cover _make_cover returns is a two-panel cover for the
\* width and height of the source page.
C11_Original ==
    pc = "cover_done" => TwoPanelCover(RectWidth(bound), RectHeight(bound))

\* C11 amended: the cover _make_cover returns is a two-panel cover for the
\* width and height of the source page with the margin trimmed from each edge.
C11_Cover ==
    pc = "cover_done" =>
        TwoPanelCover(RectWidth(RectTrim(bound, margin)),
                      RectHeight(RectTrim(bound, margin)))

\* a sheet 980 points wide with a margin of 1 point: panels of 326 points, a
\* cover 652 points wide
C11_Witness ==
    /\ pc = "cover_done"
    /\ RectWidth(bound) = Float(980)
    /\ margin = Float(1)
    /\ cover.title_rect.x1 = Float(326)
    /\ cover.width = Float(652)

\* the extent of tile k (from 0) of axis a
tile_lo(a, k) ==
    FAdd(layout_origin[a], FMul(Float(k), FSub(page_size[a], overlap[a])))

tile_hi(a, k) == FAdd(tile_lo(a, k), page_size[a])

\* the union of the tiles' extents on axis a contains [art_lo(a), art_hi(a)]:
\* some tile holds art_lo, and every tile that ends inside the range before
\* art_hi meets a tile that reaches further
CoversArt(a) ==
    LET K == 0..(n_pages[a] - 1)
    IN  /\ \E k \in K : FLe(tile_lo(a, k), art_lo(a)) /\ FLe(art_lo(a), tile_hi(a, k))
        /\ \A k \in K :
               (FLe(art_lo(a), tile_hi(a, k)) /\ FLt(tile_hi(a, k), art_hi(a))) =>
                   \E m \in K : /\ FLe(tile_lo(a, m), tile_hi(a, k))
                                /\ FLt(tile_hi(a, k), tile_hi(a, m))

ArtInCrop == \A a \in Axes : FLe(crop_lo(a), art_lo(a)) /\ FLe(art_hi(a), crop_hi(a))

ValidOverlaps ==
    \A a \in Axes : FLe(Float(0), min_overlap[a]) /\ FLt(min_overlap[a], page_size[a])

\* C12 as stated: with the page counts chosen by _choose_n_pages, the art box
\* inside the crop box and 0 <= min_overlap < page size, the tiles of each axis
\* cover the art-box range and no warning is issued.  Stated for art boxes of
\* positive width and height only.
C12_NoContentLost ==
    (Laid /\ chosen /\ ArtInCrop /\ ValidOverlaps
        /\ \A a \in Axes : FLt(Float(0), art_size(a))) =>
        /\ \A a \in Axes : CoversArt(a)
        /\ warnings = <<>>

\* the crop box moved by minus the origin of tile (jj, ii)
CropRelativeTo(jj, ii) ==
    Rect(FSub(cropbox.x0, tile_lo(1, jj)), FSub(cropbox.y0, tile_lo(2, ii)),
         FSub(cropbox.x1, tile_lo(1, jj)), FSub(cropbox.y1, tile_lo(2, ii)))

TileRects ==
    \A k \in 1..Len(docout) :
        /\ docout[k].rect = CropRelativeTo(docout[k].j, docout[k].i)
        /\ RectWidth(docout[k].rect) = RectWidth(cropbox)
        /\ RectHeight(docout[k].rect) = RectHeight(cropbox)

\* a step that adds a page leaves the crop box, the layout and the pages
\* produced before as they were
TileFrame ==
    Len(docout') > Len(docout) =>
        /\ cropbox' = cropbox
        /\ layout_origin' = layout_origin
        /\ overlap' = overlap
        /\ page_size' = page_size
        /\ \A k \in 1..Len(docout) : docout'[k] = docout[k]

\* C13: at every moment the clip rectangle of every page produced is the crop
\* box moved by minus (layout_origin + (j, i) * (page_size - overlap)), with the
\* crop box's width and height, and producing a page changes neither the crop
\* box, the layout origin, the overlaps nor the pages produced before.
C13_TileRects == []TileRects /\ [][TileFrame]_vars

\* a finished poster of 2 x 2 or more pages with overlaps on both axes and a
\* layout that does not start at the crop box's corner
C13_Witness ==
    /\ pc = "done"
    /\ n_pages[1] >= 2 /\ n_pages[2] >= 2
    /\ Len(docout) >= 4
    /\ FLt(Float(0), overlap[1]) /\ FLt(Float(0), overlap[2])
    /\ layout_origin[1] # cropbox.x0
    /\ docout[Len(docout)].rect # docout[1].rect

\* the branch of lines 195-198 is taken on axis a
EliminatesWhitespace(a) ==
    ~allow_whitespace /\ n_pages[a] > 1 /\ FLt(crop_size(a), min_overlap_size(a))

\* C14: on every axis the returned overlap is at least
\* min_overlap: greater than it where whitespace is eliminated
\* (allow_whitespace false, n_pages > 1, minimum-overlap layout larger than the
\* crop box), equal to it everywhere else.
C14_OverlapAtLeastMin ==
    Laid => \A a \in Axes :
        /\ FLe(min_overlap[a], overlap[a])
        /\ IF EliminatesWhitespace(a)
           THEN FLt(min_overlap[a], overlap[a])
           ELSE overlap[a] = min_overlap[a]

\* whitespace allowed: several pages at the minimum overlap, larger than the
\* crop box
C14_Witness ==
    /\ Laid
    /\ allow_whitespace
    /\ n_pages[1] > 1
    /\ FLt(crop_size(1), min_overlap_size(1))
    /\ FLt(Float(0), min_overlap[1])
    /\ overlap[1] = min_overlap[1]
====
